---- MODULE Spec2Model ----
\* A model of the two scripts of the repository:
\*   src/src/module_1/module_1_meteo_api.py  (weather fetch, aggregation, charts)
\*   src/src/module_3/filter_feature_frame.py (per-user frequency filter)
EXTENDS Integers, Sequences, FiniteSets, TLC

\* --------------------------------------------------------------------------
\* Bounds of the model (not program constants)
\* --------------------------------------------------------------------------
\* largest max_retries a direct caller of call_api passes
MaxRetriesBound == 3
\* number of successive direct call_api calls of one run of the harness
MaxCalls == 2
\* longest input table of the frequency filter
MaxRows == 7
\* largest day-to-day slope of the synthetic daily series
MaxSlope == 2

\* --------------------------------------------------------------------------
\* Program constants
\* --------------------------------------------------------------------------
\* def call_api(url, params, max_retries: int = 3)
DefaultMaxRetries == 3
\* if len(city_data) > 365
DailyRowsLimit == 365
\* user_counts >= 5
MinProducts == 5
\* pandas' missing value (NaN / None), outside the range of every modelled value
NaN == -1

API_URL == "https://archive-api.open-meteo.com/v1/archive?"

\* list(COORDINATES.keys()): a dict iterates in insertion order
CityKeys == <<"Madrid", "London", "Rio">>

COORDINATES ==
    [c \in {CityKeys[i] : i \in DOMAIN CityKeys} |->
        CASE c = "Madrid" -> [latitude |-> "40.416775", longitude |-> "-3.703790"]
          [] c = "London" -> [latitude |-> "51.507351", longitude |-> "-0.127758"]
          [] c = "Rio" -> [latitude |-> "-22.906847", longitude |-> "-43.172896"]]

WEATHER_VARIABLES == <<"temperature_2m_mean", "precipitation_sum", "wind_speed_10m_max">>

\* Python's None
None == [kind |-> "None"]

VARIABLES
    \* ---- weather script
    entry,        \* the function the run entered: "call_api", "get_data" or "main"
    pc,           \* control location of the weather script
    city,         \* get_data_meteo_api: its city argument
    params,       \* get_data_meteo_api: the query parameters built, or None
    max_retries,  \* call_api: its max_retries argument
    attempt,      \* call_api: the loop variable of range(max_retries)
    log,          \* call_api: one entry per requests.get issued by the current call
    ret,          \* call_api: the value returned
    prevLog,      \* the log of the previous call_api call of this run
    prevMax,      \* the max_retries of the previous call_api call of this run
    apiCalls,     \* number of call_api invocations of this run
    fetched,      \* the cities get_data_meteo_api was called with, in order
    raised,       \* an exception left call_api
    gd_ret,       \* get_data_meteo_api: the value returned
    cityIdx,      \* get_complete_weather_data: position in COORDINATES.keys()
    cities_data,  \* get_complete_weather_data: the dict built so far
    charts,       \* the charts saved by plot_weather_evolution, in order
    \* ---- frequency filter script
    fpc,          \* control location of the filter script
    df,           \* the table read from feature_frame.csv
    user_counts,  \* df['user_id'].value_counts()
    valid_users,  \* user_counts[user_counts >= 5].index
    filtered_df,  \* df[df['user_id'].isin(valid_users)]
    saved_csv,    \* the content of feature_frame_filtered.csv
    firstOut,     \* the filtered_df of the first pass, once a second pass runs on it
    fpass,        \* 1: the script runs on the input; 2: it runs on its own output
    \* ---- process_weather_data called on its own
    rpc,          \* control location inside process_weather_data
    rdf,          \* its df argument
    processed_df, \* its processed_df variable
    resample_freq,\* its resample_freq argument
    result        \* its result variable

wvars == <<entry, pc, city, params, max_retries, attempt, log, ret, prevLog,
           prevMax, apiCalls, fetched, raised, gd_ret, cityIdx, cities_data, charts>>
fvars == <<fpc, df, user_counts, valid_users, filtered_df, saved_csv, firstOut, fpass>>
rvars == <<rpc, rdf, processed_df, resample_freq, result>>
vars == <<wvars, fvars, rvars>>

\* --------------------------------------------------------------------------
\* Daily tables and the calendar pandas resamples on
\* --------------------------------------------------------------------------
\* lengths of the months of 2010 (not a leap year)
MonthLengths == <<31, 28, 31, 30, 31, 30, 31, 31, 30, 31, 30, 31>>

RECURSIVE MonthStart(_)
\* day-of-year of the first day of month m (m = 13: the day after the year)
MonthStart(m) == IF m = 1 THEN 1 ELSE MonthStart(m - 1) + MonthLengths[m - 1]

\* the first day of every month, and of the year after
MonthStarts == [m \in 1..(Len(MonthLengths) + 1) |-> MonthStart(m)]

MonthOf(d) == CHOOSE m \in DOMAIN MonthLengths : MonthStarts[m] <= d /\ d < MonthStarts[m + 1]

QuarterOf(d) == ((MonthOf(d) - 1) \div 3) + 1

\* the bin of the resampling rule a day falls into
PeriodOf(d, rule) ==
    CASE rule = "M" -> MonthOf(d)
      [] rule = "Q" -> QuarterOf(d)
      [] rule = "Y" -> 1

\* resample labels a bin by its last day
PeriodEnd(p, rule) ==
    CASE rule = "M" -> MonthStarts[p + 1] - 1
      [] rule = "Q" -> MonthStarts[3 * p + 1] - 1
      [] rule = "Y" -> MonthStarts[13] - 1

\* a missing city label
NoCity == "<NA>"

RECURSIVE SumRange(_, _, _)
\* s[lo] + ... + s[hi], by halves
SumRange(s, lo, hi) ==
    IF lo > hi THEN 0
    ELSE IF lo = hi THEN s[lo]
    ELSE LET mid == (lo + hi) \div 2
         IN SumRange(s, lo, mid) + SumRange(s, mid + 1, hi)

SumSeq(s) == SumRange(s, 1, Len(s))

\* the largest / smallest element of a non-empty sequence
MaxSeq(s) == CHOOSE x \in {s[i] : i \in DOMAIN s} : \A i \in DOMAIN s : s[i] <= x
MinSeq(s) == CHOOSE x \in {s[i] : i \in DOMAIN s} : \A i \in DOMAIN s : s[i] >= x

Column(rows, col) == [i \in DOMAIN rows |-> rows[i][col]]

NotNaN(x) == x # NaN
Present(s) == SelectSeq(s, NotNaN)

\* pandas "mean": the mean of the values present, NaN (den = 0) when there is none.
\* The mean is kept as the exact fraction num / den.
AggMean(s) == [num |-> SumSeq(Present(s)), den |-> Len(Present(s))]

\* pandas "sum": the sum of the values present, 0 when there is none
AggSum(s) == SumSeq(Present(s))

\* pandas "max": the largest value present, NaN when there is none
AggMax(s) == IF Present(s) = <<>> THEN NaN ELSE MaxSeq(Present(s))

\* pandas "first": the first label present, missing when there is none
AggFirst(s) ==
    LET HasCity(c) == c # NoCity
        some == SelectSeq(s, HasCity)
    IN IF some = <<>> THEN NoCity ELSE Head(some)

\* lines 143-163: the rule the if / elif / else picks
ResampleRule(freq) == IF freq = "M" THEN "M" ELSE IF freq = "Q" THEN "Q" ELSE "Y"

\* pandas "min": the smallest value present, NaN when there is none
AggMin(s) == IF Present(s) = <<>> THEN NaN ELSE MinSeq(Present(s))

\* a variant of AggRow: the wind speed is reduced by "min"
AggRow_WindMin(rows, p, rule) ==
    LET InBin(r) == PeriodOf(r.time, rule) = p
        grp == SelectSeq(rows, InBin)
    IN [time |-> PeriodEnd(p, rule),
        temperature_2m_mean |-> AggMean(Column(grp, "temperature_2m_mean")),
        precipitation_sum |-> AggSum(Column(grp, "precipitation_sum")),
        wind_speed_10m_max |-> AggMin(Column(grp, "wind_speed_10m_max")),
        city |-> AggFirst(Column(grp, "city"))]

\* the rows of one bin, reduced by .agg({... "mean", "sum", "max", "first"})
AggRow(rows, p, rule) ==
    LET InBin(r) == PeriodOf(r.time, rule) = p
        grp == SelectSeq(rows, InBin)
    IN [time |-> PeriodEnd(p, rule),
        temperature_2m_mean |-> AggMean(Column(grp, "temperature_2m_mean")),
        precipitation_sum |-> AggSum(Column(grp, "precipitation_sum")),
        wind_speed_10m_max |-> AggMax(Column(grp, "wind_speed_10m_max")),
        city |-> AggFirst(Column(grp, "city"))]

\* processed_df.resample(rule).agg(...): one row per bin from the first period
\* with a row to the last one, the empty bins between them included
ResampleAgg(rows, rule) ==
    IF Len(rows) = 0 THEN <<>>
    ELSE LET ps == [i \in DOMAIN rows |-> PeriodOf(rows[i].time, rule)]
             lo == MinSeq(ps)
             hi == MaxSeq(ps)
         IN [k \in 1..(hi - lo + 1) |-> AggRow(rows, lo + k - 1, rule)]

RowHasNaN(r) ==
    \/ r.temperature_2m_mean.den = 0
    \/ r.wind_speed_10m_max = NaN
    \/ r.city = NoCity

\* result.dropna().reset_index()
DropNa(rows) ==
    LET Complete(r) == ~RowHasNaN(r) IN SelectSeq(rows, Complete)

\* process_weather_data(df, resample_freq)
process_weather_data(rows, freq) == DropNa(ResampleAgg(rows, ResampleRule(freq)))

\* ---- synthetic daily series -------------------------------------------------
Temperature(d, a, b) == (a * d + b) % 7
Precipitation(d, a, b) == (d + a + b) % 3
WindSpeed(d, a, b) == (a * d + 2 * b + d) % 5

\* the window start..end without the days of the month gap (gap = 0: no gap)
DaysOf(start, end, gap) ==
    LET all == [i \in 1..(end - start + 1) |-> start + i - 1]
        Kept(d) == MonthOf(d) # gap
    IN SelectSeq(all, Kept)

\* the "daily" part of an API answer: nan = "day" blanks the temperature of the
\* first day, nan = "month" blanks every temperature of the first month
DailyRows(start, end, gap, a, b, nan) ==
    LET days == DaysOf(start, end, gap)
        Blank(d) == \/ nan = "day" /\ d = days[1]
                    \/ nan = "month" /\ MonthOf(d) = MonthOf(days[1])
    IN [i \in DOMAIN days |->
          [time |-> days[i],
           temperature_2m_mean |-> IF Blank(days[i]) THEN NaN
                                   ELSE Temperature(days[i], a, b),
           precipitation_sum |-> Precipitation(days[i], a, b),
           wind_speed_10m_max |-> WindSpeed(days[i], a, b)]]

\* df = pd.DataFrame(data["daily"]); df["city"] = city
WithCity(rows, c) ==
    [i \in DOMAIN rows |->
        [time |-> rows[i].time,
         temperature_2m_mean |-> rows[i].temperature_2m_mean,
         precipitation_sum |-> rows[i].precipitation_sum,
         wind_speed_10m_max |-> rows[i].wind_speed_10m_max,
         city |-> c]]

\* --------------------------------------------------------------------------
\* call_api
\* --------------------------------------------------------------------------
\* what one requests.get(url, params=params, timeout=30) can do
StatusCodes == {200, 429, 404, 500}
NetworkErrors == {"ConnectionError", "Timeout"}
\* a variant of the except clause: only connection failures are caught
RequestException_ConnectionOnly == {"ConnectionError"}

\* the classes `except requests.exceptions.RequestException` catches
RequestException == {"RequestException", "ConnectionError", "Timeout", "HTTPError"}

Response(s) == [status_code |-> s, exc |-> "none"]
Raises(e) == [status_code |-> 0, exc |-> e]

\* response.json(): the parsed JSON object, its "daily" value as rows
Json(keys, daily) == [kind |-> "json", keys |-> keys, daily |-> daily]

\* the answers of the archive API the model draws a 200 from
Bodies ==
    {Json({}, <<>>),
     Json({"error", "reason"}, <<>>),
     Json({"latitude", "longitude", "daily"}, DailyRows(31, 32, 0, 1, 0, "none")),
     Json({"latitude", "longitude", "daily"}, DailyRows(59, 60, 0, 1, 1, "day"))}

\* a variant of Branch: every status other than 200 is retried like a 429
Branch_RetryAnyStatus(o) ==
    IF o.exc # "none" THEN (IF o.exc \in RequestException THEN "except" ELSE "propagate")
    ELSE IF o.status_code = 200 THEN "return_json"
    ELSE "rate_limited"

\* lines 46-57: the branch an attempt's outcome takes
Branch(o) ==
    IF o.exc # "none" THEN (IF o.exc \in RequestException THEN "except" ELSE "propagate")
    ELSE IF o.status_code = 200 THEN "return_json"
    ELSE IF o.status_code = 429 THEN "rate_limited"
    ELSE "http_error"

\* a variant of wait_time: a wait that grows by a constant step
wait_time_Linear(a) == 2 * a + 1

\* line 50: wait_time = 2 ** attempt
wait_time(a) == 2 ^ a

\* lines 59-60: the sleep of the except branch (0: no sleep)
except_sleep(a, m) == IF a < m - 1 THEN 2 ^ a ELSE 0

Entry(a, o, w) == [attempt |-> a, outcome |-> o, slept |-> w]

\* where call_api returns to
AfterCallApi == IF entry = "call_api" THEN "done" ELSE "gd_check"

\* call_api(url, params, max_retries) is entered
EnterCallApi(m) ==
    /\ max_retries' = m
    /\ attempt' = 0
    /\ log' = <<>>
    /\ ret' = None
    /\ apiCalls' = apiCalls + 1
    /\ pc' = "call_api"

InLoop == pc = "call_api" /\ attempt < max_retries

CallUnchanged == UNCHANGED <<entry, city, params, max_retries, prevLog, prevMax,
                             apiCalls, fetched, gd_ret, cityIdx, cities_data, charts>>

\* lines 46-48: status 200, return response.json()
Attempt200 ==
    /\ InLoop
    /\ \E o \in {Response(s) : s \in StatusCodes}, body \in Bodies :
         /\ Branch(o) = "return_json"
         /\ log' = Append(log, Entry(attempt, o, 0))
         /\ ret' = body
    /\ pc' = AfterCallApi
    /\ UNCHANGED <<attempt, raised>>
    /\ CallUnchanged /\ UNCHANGED <<fvars, rvars>>

\* lines 49-52: status 429, sleep 2 ** attempt, next iteration
Attempt429 ==
    /\ InLoop
    /\ \E o \in {Response(s) : s \in StatusCodes} :
         /\ Branch(o) = "rate_limited"
         /\ log' = Append(log, Entry(attempt, o, wait_time(attempt)))
    /\ attempt' = attempt + 1
    /\ UNCHANGED <<pc, ret, raised>>
    /\ CallUnchanged /\ UNCHANGED <<fvars, rvars>>

\* lines 53-55: any other status, return None
AttemptHttpError ==
    /\ InLoop
    /\ \E o \in {Response(s) : s \in StatusCodes} :
         /\ Branch(o) = "http_error"
         /\ log' = Append(log, Entry(attempt, o, 0))
    /\ ret' = None
    /\ pc' = AfterCallApi
    /\ UNCHANGED <<attempt, raised>>
    /\ CallUnchanged /\ UNCHANGED <<fvars, rvars>>

\* lines 57-60: requests.get raised; a RequestException is caught, slept on
\* unless this was the last attempt, and the loop goes on; any other exception
\* leaves call_api
AttemptException ==
    /\ InLoop
    /\ \E o \in {Raises(e) : e \in NetworkErrors} :
         IF Branch(o) = "except"
         THEN /\ log' = Append(log, Entry(attempt, o, except_sleep(attempt, max_retries)))
              /\ attempt' = attempt + 1
              /\ UNCHANGED <<pc, ret, raised>>
         ELSE /\ log' = Append(log, Entry(attempt, o, 0))
              /\ raised' = TRUE
              /\ pc' = "raised"
              /\ UNCHANGED <<attempt, ret>>
    /\ CallUnchanged /\ UNCHANGED <<fvars, rvars>>

\* lines 62-63: range(max_retries) is used up, return None
LoopExhausted ==
    /\ pc = "call_api"
    /\ attempt >= max_retries
    /\ ret' = None
    /\ pc' = AfterCallApi
    /\ UNCHANGED <<attempt, log, raised>>
    /\ CallUnchanged /\ UNCHANGED <<fvars, rvars>>

\* a caller calls call_api(API_URL, params, m) directly, MaxCalls times at most
CallApiDirect ==
    /\ \/ pc = "start"
       \/ pc = "done" /\ entry = "call_api" /\ apiCalls < MaxCalls
    /\ entry' = "call_api"
    /\ \E m \in 0..MaxRetriesBound : EnterCallApi(m)
    /\ prevLog' = log
    /\ prevMax' = max_retries
    /\ UNCHANGED <<city, params, fetched, raised, gd_ret, cityIdx, cities_data, charts>>
    /\ UNCHANGED <<fvars, rvars>>

\* --------------------------------------------------------------------------
\* get_data_meteo_api
\* --------------------------------------------------------------------------
\* the arguments the model calls get_data_meteo_api with
CityNames == {"Madrid", "London", "Rio", "Paris", "madrid"}
DateStrings == {"2010-01-01", "2020-12-31", "not-a-date"}

\* where get_data_meteo_api returns to
AfterGetData == IF entry = "main" THEN "gcwd_store" ELSE "done"

\* a variant of get_data_meteo_api: an unknown city falls back to the first
\* registered coordinates instead of failing
get_data_meteo_api_NoCheck(c, start_date, end_date, ent) ==
    LET known == IF c \in DOMAIN COORDINATES THEN c ELSE CityKeys[1]
    IN /\ city' = c
       /\ fetched' = Append(fetched, c)
       /\ params' = [latitude |-> COORDINATES[known].latitude,
                     longitude |-> COORDINATES[known].longitude,
                     start_date |-> start_date,
                     end_date |-> end_date,
                     daily |-> WEATHER_VARIABLES,
                     timezone |-> "auto"]
       /\ EnterCallApi(DefaultMaxRetries)
       /\ UNCHANGED gd_ret

\* lines 84-99: the registry check, then the query and the call of call_api
get_data_meteo_api(c, start_date, end_date, ent) ==
    /\ city' = c
    /\ fetched' = Append(fetched, c)
    /\ IF c \notin DOMAIN COORDINATES
       THEN /\ gd_ret' = None
            /\ params' = None
            /\ pc' = IF ent = "main" THEN "gcwd_store" ELSE "done"
            /\ UNCHANGED <<max_retries, attempt, log, ret, apiCalls>>
       ELSE /\ params' = [latitude |-> COORDINATES[c].latitude,
                          longitude |-> COORDINATES[c].longitude,
                          start_date |-> start_date,
                          end_date |-> end_date,
                          daily |-> WEATHER_VARIABLES,
                          timezone |-> "auto"]
            /\ EnterCallApi(DefaultMaxRetries)
            /\ UNCHANGED gd_ret

\* a caller calls get_data_meteo_api(city, start_date, end_date)
GetDataDirect ==
    /\ pc = "start"
    /\ entry' = "get_data"
    /\ \E c \in CityNames, sd \in DateStrings, ed \in DateStrings :
         get_data_meteo_api(c, sd, ed, "get_data")
    /\ UNCHANGED <<raised, prevLog, prevMax, cityIdx, cities_data, charts>>
    /\ UNCHANGED <<fvars, rvars>>

\* line 102: if data and "daily" in data
HasDaily(data) == data # None /\ data.keys # {} /\ "daily" \in data.keys

\* lines 102-116: the answer of call_api becomes a table with a city column, or None
GetDataCheck ==
    /\ pc = "gd_check"
    /\ gd_ret' = IF HasDaily(ret)
                 THEN [kind |-> "df", rows |-> WithCity(ret.daily, city)]
                 ELSE None
    /\ pc' = AfterGetData
    /\ UNCHANGED <<entry, city, params, max_retries, attempt, log, ret, prevLog,
                   prevMax, apiCalls, fetched, raised, cityIdx, cities_data, charts>>
    /\ UNCHANGED <<fvars, rvars>>

\* --------------------------------------------------------------------------
\* get_complete_weather_data, plot_weather_evolution, main
\* --------------------------------------------------------------------------
Unset == [kind |-> "unset"]

\* line 291 / 261: main enters get_complete_weather_data, cities_data = {}
MainStart ==
    /\ pc = "start"
    /\ entry' = "main"
    /\ cityIdx' = 1
    /\ pc' = "gcwd_loop"
    /\ UNCHANGED <<city, params, max_retries, attempt, log, ret, prevLog, prevMax,
                   apiCalls, fetched, raised, gd_ret, cities_data, charts>>
    /\ UNCHANGED <<fvars, rvars>>

\* lines 263-265: the next city of COORDINATES.keys() is fetched
GcwdFetch ==
    /\ pc = "gcwd_loop"
    /\ cityIdx <= Len(CityKeys)
    /\ get_data_meteo_api(CityKeys[cityIdx], "2010-01-01", "2020-12-31", "main")
    /\ UNCHANGED <<entry, raised, prevLog, prevMax, cityIdx, cities_data, charts>>
    /\ UNCHANGED <<fvars, rvars>>

\* lines 267-274: the city's monthly table, or None, is stored
GcwdStore ==
    /\ pc = "gcwd_store"
    /\ cities_data' =
         [cities_data EXCEPT ![city] =
            IF gd_ret # None
            THEN [kind |-> "df", rows |-> process_weather_data(gd_ret.rows, "M")]
            ELSE None]
    /\ cityIdx' = cityIdx + 1
    /\ pc' = "gcwd_loop"
    /\ UNCHANGED <<entry, city, params, max_retries, attempt, log, ret, prevLog,
                   prevMax, apiCalls, fetched, raised, gd_ret, charts>>
    /\ UNCHANGED <<fvars, rvars>>

\* line 294: the cities whose data is not None, in dict order
successful_cities ==
    LET Ok(c) == cities_data[c] # None /\ cities_data[c] # Unset
    IN SelectSeq(CityKeys, Ok)

\* a variant of MainCheck: main stops as soon as one city has no data
MainCheck_AllRequired ==
    /\ pc = "gcwd_loop"
    /\ cityIdx > Len(CityKeys)
    /\ pc' = IF Len(successful_cities) < Len(CityKeys) THEN "done" ELSE "plot"
    /\ UNCHANGED <<entry, city, params, max_retries, attempt, log, ret, prevLog,
                   prevMax, apiCalls, fetched, raised, gd_ret, cityIdx, cities_data, charts>>
    /\ UNCHANGED <<fvars, rvars>>

\* lines 276, 294-298: the dict is returned; main stops when no city has data
MainCheck ==
    /\ pc = "gcwd_loop"
    /\ cityIdx > Len(CityKeys)
    /\ pc' = IF successful_cities = <<>> THEN "done" ELSE "plot"
    /\ UNCHANGED <<entry, city, params, max_retries, attempt, log, ret, prevLog,
                   prevMax, apiCalls, fetched, raised, gd_ret, cityIdx, cities_data, charts>>
    /\ UNCHANGED <<fvars, rvars>>

\* lines 193-206: one line per city whose data is not None; a table of more than
\* 365 rows is aggregated first
plot_lines(all_cities_data, variable, freq) ==
    LET Drawn(c) == all_cities_data[c] # None
        Line(c) ==
            LET d == all_cities_data[c].rows
                shown == IF Len(d) > DailyRowsLimit THEN process_weather_data(d, freq) ELSE d
            IN [label |-> c, x |-> Column(shown, "time"), y |-> Column(shown, variable)]
        drawn == SelectSeq(CityKeys, Drawn)
    IN [i \in DOMAIN drawn |-> Line(drawn[i])]

\* lines 175-248: plot_weather_evolution saves one chart
plot_weather_evolution(all_cities_data, variable, freq) ==
    [filename |-> variable, lines |-> plot_lines(all_cities_data, variable, freq)]

\* lines 305-315: the three charts, one call of plot_weather_evolution each
MainPlot ==
    /\ pc = "plot"
    /\ charts' = Append(charts, plot_weather_evolution(
                     cities_data, WEATHER_VARIABLES[Len(charts) + 1], "M"))
    /\ pc' = IF Len(charts) + 1 = Len(WEATHER_VARIABLES) THEN "done" ELSE "plot"
    /\ UNCHANGED <<entry, city, params, max_retries, attempt, log, ret, prevLog,
                   prevMax, apiCalls, fetched, raised, gd_ret, cityIdx, cities_data>>
    /\ UNCHANGED <<fvars, rvars>>

\* --------------------------------------------------------------------------
\* The weather script as a state machine
\* --------------------------------------------------------------------------
FilterIdle ==
    /\ fpc = "off" /\ df = <<>> /\ user_counts = <<>> /\ valid_users = {}
    /\ filtered_df = <<>> /\ saved_csv = <<>> /\ firstOut = <<>> /\ fpass = 0

ResampleIdle ==
    /\ rpc = "off" /\ rdf = <<>> /\ processed_df = <<>> /\ resample_freq = "M"
    /\ result = <<>>

WeatherIdle ==
    /\ entry = "none" /\ pc = "off" /\ city = "" /\ params = None
    /\ max_retries = 0 /\ attempt = 0 /\ log = <<>> /\ ret = None
    /\ prevLog = <<>> /\ prevMax = 0 /\ apiCalls = 0 /\ fetched = <<>>
    /\ raised = FALSE
    /\ gd_ret = None /\ cityIdx = 0
    /\ cities_data = [c \in DOMAIN COORDINATES |-> Unset]
    /\ charts = <<>>

Init ==
    /\ entry = "none" /\ pc = "start" /\ city = "" /\ params = None
    /\ max_retries = 0 /\ attempt = 0 /\ log = <<>> /\ ret = None
    /\ prevLog = <<>> /\ prevMax = 0 /\ apiCalls = 0 /\ fetched = <<>>
    /\ raised = FALSE
    /\ gd_ret = None /\ cityIdx = 0
    /\ cities_data = [c \in DOMAIN COORDINATES |-> Unset]
    /\ charts = <<>>
    /\ FilterIdle /\ ResampleIdle

Next ==
    \/ CallApiDirect
    \/ Attempt200
    \/ Attempt429
    \/ AttemptHttpError
    \/ AttemptException
    \/ LoopExhausted
    \/ GetDataDirect
    \/ GetDataCheck
    \/ MainStart
    \/ GcwdFetch
    \/ GcwdStore
    \/ MainCheck
    \/ MainPlot

Spec == Init /\ [][Next]_vars

\* --------------------------------------------------------------------------
\* filter_feature_frame.py
\* --------------------------------------------------------------------------
\* the user_id values of the modelled tables; NaN is an empty user_id cell
UserIds == {1, 2, 3, NaN}

\* a row of feature_frame.csv: its user_id, and its line number standing for
\* the columns the script does not read
FeatureRow(u, n) == [user_id |-> u, line |-> n]

\* every table of at most MaxRows rows over two users and the empty cell
SmallTables ==
    UNION {{[i \in 1..n |-> FeatureRow(us[i], i)] : us \in [1..n -> {1, 2, NaN}]} :
              n \in 0..MaxRows}

RECURSIVE Interleave(_, _, _)
\* the users take turns: round r holds one row of every user with at least r rows
Interleave(cnt, r, acc) ==
    IF \A u \in UserIds : cnt[u] < r THEN acc
    ELSE LET Turn(u) == cnt[u] >= r
             round == SelectSeq(<<1, 2, 3, NaN>>, Turn)
         IN Interleave(cnt, r + 1,
                acc \o [i \in DOMAIN round |-> FeatureRow(round[i], Len(acc) + i)])

\* tables with several users around the threshold
WideTables ==
    {Interleave(cnt, 1, <<>>) :
        cnt \in [UserIds -> {0, MinProducts - 1, MinProducts, MinProducts + 1}]}

\* a variant of value_counts: the first row is not counted
value_counts_SkipFirst(rows) ==
    LET rest == IF Len(rows) = 0 THEN rows ELSE Tail(rows)
        keys == {rest[i].user_id : i \in DOMAIN rest} \ {NaN}
    IN [k \in keys |-> Cardinality({i \in DOMAIN rest : rest[i].user_id = k})]

\* line 11: df['user_id'].value_counts(): rows per user_id; dropna=True is the
\* default, so a missing user_id is not counted
value_counts(rows) ==
    LET keys == {rows[i].user_id : i \in DOMAIN rows} \ {NaN}
    IN [k \in keys |-> Cardinality({i \in DOMAIN rows : rows[i].user_id = k})]

\* variants of the threshold test
MeetsThreshold_Strict(n) == n > MinProducts
MeetsThreshold_OffByOne(n) == n >= MinProducts - 1

\* line 14: user_counts >= 5
MeetsThreshold(n) == n >= MinProducts

\* line 17: df[df['user_id'].isin(valid_users)]: the rows kept, in df's order
isin_rows(rows, users) ==
    LET Kept(r) == r.user_id \in users IN SelectSeq(rows, Kept)

FilterUnchanged == UNCHANGED <<wvars, rvars>>

\* line 11
CountUsers ==
    /\ fpc = "loaded"
    /\ user_counts' = value_counts(df)
    /\ fpc' = "counted"
    /\ UNCHANGED <<df, valid_users, filtered_df, saved_csv, firstOut, fpass>>
    /\ FilterUnchanged

\* line 14
SelectValidUsers ==
    /\ fpc = "counted"
    /\ valid_users' = {k \in DOMAIN user_counts : MeetsThreshold(user_counts[k])}
    /\ fpc' = "selected"
    /\ UNCHANGED <<df, user_counts, filtered_df, saved_csv, firstOut, fpass>>
    /\ FilterUnchanged

\* line 17
FilterRows ==
    /\ fpc = "selected"
    /\ filtered_df' = isin_rows(df, valid_users)
    /\ fpc' = "filtered"
    /\ UNCHANGED <<df, user_counts, valid_users, saved_csv, firstOut, fpass>>
    /\ FilterUnchanged

\* line 20: filtered_df.to_csv(..., index=False)
SaveCsv ==
    /\ fpc = "filtered"
    /\ saved_csv' = filtered_df
    /\ fpc' = "saved"
    /\ UNCHANGED <<df, user_counts, valid_users, filtered_df, firstOut, fpass>>
    /\ FilterUnchanged

\* line 8: the script is run once more, on the table it saved
Refilter ==
    /\ fpc = "saved"
    /\ fpass = 1
    /\ df' = saved_csv
    /\ firstOut' = filtered_df
    /\ fpass' = 2
    /\ user_counts' = <<>>
    /\ valid_users' = {}
    /\ filtered_df' = <<>>
    /\ fpc' = "loaded"
    /\ UNCHANGED saved_csv
    /\ FilterUnchanged

\* line 8: df = pd.read_csv(file_path)
FilterInit ==
    /\ WeatherIdle /\ ResampleIdle
    /\ fpc = "loaded"
    /\ df \in SmallTables \cup WideTables
    /\ user_counts = <<>> /\ valid_users = {}
    /\ filtered_df = <<>> /\ saved_csv = <<>> /\ firstOut = <<>>
    /\ fpass = 1

FilterNext ==
    \/ CountUsers
    \/ SelectValidUsers
    \/ FilterRows
    \/ SaveCsv
    \/ Refilter

SpecFilter == FilterInit /\ [][FilterNext]_vars

\* --------------------------------------------------------------------------
\* process_weather_data, statement by statement
\* --------------------------------------------------------------------------
\* the windows of daily records process_weather_data is called on
StartDays == {1, 32, 60}
EndDays == {31, 59, 90, 120}
Frequencies == {"M", "Q", "Y", "W"}

ResampleUnchanged == UNCHANGED <<wvars, fvars>>

\* lines 137-140: processed_df = df.copy(); set_index("time")
SetIndex ==
    /\ rpc = "called"
    /\ processed_df' = rdf
    /\ rpc' = "indexed"
    /\ UNCHANGED <<rdf, resample_freq, result>>
    /\ ResampleUnchanged

\* lines 143-149
ResampleMonthly ==
    /\ rpc = "indexed"
    /\ resample_freq = "M"
    /\ result' = ResampleAgg(processed_df, "M")
    /\ rpc' = "resampled"
    /\ UNCHANGED <<rdf, processed_df, resample_freq>>
    /\ ResampleUnchanged

\* lines 150-156
ResampleQuarterly ==
    /\ rpc = "indexed"
    /\ resample_freq # "M" /\ resample_freq = "Q"
    /\ result' = ResampleAgg(processed_df, "Q")
    /\ rpc' = "resampled"
    /\ UNCHANGED <<rdf, processed_df, resample_freq>>
    /\ ResampleUnchanged

\* lines 157-163: any other frequency is resampled by year
ResampleYearly ==
    /\ rpc = "indexed"
    /\ resample_freq # "M" /\ resample_freq # "Q"
    /\ result' = ResampleAgg(processed_df, "Y")
    /\ rpc' = "resampled"
    /\ UNCHANGED <<rdf, processed_df, resample_freq>>
    /\ ResampleUnchanged

\* lines 166-169: result.dropna().reset_index() is returned
DropNaReturn ==
    /\ rpc = "resampled"
    /\ result' = DropNa(result)
    /\ rpc' = "returned"
    /\ UNCHANGED <<rdf, processed_df, resample_freq>>
    /\ ResampleUnchanged

\* process_weather_data(df, resample_freq) is called
ResampleInit ==
    /\ WeatherIdle /\ FilterIdle
    /\ rpc = "called"
    /\ \E s \in StartDays, e \in EndDays, gap \in {0, 2}, a \in 0..MaxSlope,
          b \in {0, 1}, nan \in {"none", "day", "month"}, c \in {"Madrid", "Rio"} :
         /\ s <= e
         /\ rdf = WithCity(DailyRows(s, e, gap, a, b, nan), c)
    /\ resample_freq \in Frequencies
    /\ processed_df = <<>>
    /\ result = <<>>

ResampleNext ==
    \/ SetIndex
    \/ ResampleMonthly
    \/ ResampleQuarterly
    \/ ResampleYearly
    \/ DropNaReturn

SpecResample == ResampleInit /\ [][ResampleNext]_vars

\* the sequential script always takes its next step: requests.get is given
\* timeout=30 and time.sleep returns
FairSpec == Init /\ [][Next]_vars /\ WF_vars(Next)

\* --------------------------------------------------------------------------
\* Properties of call_api
\* --------------------------------------------------------------------------
Returned == pc \notin {"start", "call_api", "raised"}

IsStatus(e, s) == e.outcome.exc = "none" /\ e.outcome.status_code = s
IsHttpError(e) == e.outcome.exc = "none" /\ e.outcome.status_code \notin {200, 429}
IsNetworkError(e) == e.outcome.exc # "none"

\* the durations call_api slept for, in order
Waits(l) == LET Slept(e) == e.slept > 0
            IN [i \in DOMAIN SelectSeq(l, Slept) |-> SelectSeq(l, Slept)[i].slept]

\* C1: an attempt answered with a status other than 200 and 429 is the last
\* request of the call: nothing is slept on, call_api has returned None, and the
\* log holds no later request, whatever max_retries >= 1 is.
C1_HttpErrorReturnsNoneAtOnce ==
    \A i \in DOMAIN log :
        IsHttpError(log[i]) =>
            /\ max_retries >= 1
            /\ i = Len(log)
            /\ log[i].slept = 0
            /\ Returned
            /\ ret = None
            /\ Cardinality({j \in DOMAIN log : IsHttpError(log[j])}) = 1

\* C1 witness: a call with room for retries that stopped on a 404 / 500 answer
\* received after a rate-limited attempt
C1_Witness ==
    /\ entry = "call_api" /\ pc = "done" /\ max_retries = 3
    /\ Len(log) = 2 /\ IsStatus(log[1], 429) /\ IsHttpError(log[2])

\* C2: with the default ceiling of 3, an attempt answered 429 is followed by a
\* sleep of 2^attempt (attempt counted from 0); a call that saw a 429 has issued
\* at least two requests by the time it returns; and the successive waits of a
\* call are 1, 2, 4: each the double of the one before.
C2_RateLimitBackoffDoubles ==
    max_retries = DefaultMaxRetries =>
        /\ \A i \in DOMAIN log :
              IsStatus(log[i], 429) => log[i].slept = 2 ^ log[i].attempt
        /\ (Returned /\ \E i \in DOMAIN log : IsStatus(log[i], 429)) => Len(log) >= 2
        /\ \A k \in DOMAIN Waits(log) :
              /\ k = 1 => Waits(log)[k] = 1
              /\ k > 1 => Waits(log)[k] = 2 * Waits(log)[k - 1]

\* C2 witness: three rate-limited attempts of a default call, slept 1, 2 and 4
C2_Witness ==
    /\ max_retries = DefaultMaxRetries /\ Returned /\ Len(log) = 3
    /\ \A i \in DOMAIN log : IsStatus(log[i], 429)
    /\ Waits(log) = <<1, 2, 4>>

C3_Safety ==
    /\ ~raised
    /\ pc # "raised"
    /\ Len(log) <= max_retries
    /\ \A i \in DOMAIN log : log[i].attempt = i - 1
    /\ ret # None =>
          /\ ret \in Bodies
          /\ Returned
          /\ log # <<>> /\ IsStatus(log[Len(log)], 200)
    /\ (/\ Returned
        /\ \A i \in DOMAIN log : IsStatus(log[i], 429) \/ IsNetworkError(log[i]))
       => (ret = None /\ Len(log) = max_retries)

IsRetryable(e) == IsStatus(e, 429) \/ e.outcome.exc \in NetworkErrors

\* C4: under the same max_retries and at the same attempt index, a failed
\* attempt is followed by the same wait whether it was a 429 or a network
\* error (compared across two successive calls of call_api).
C4_SameBackoffFor429AndNetworkError ==
    \A i \in DOMAIN log, j \in DOMAIN prevLog :
        (/\ max_retries = prevMax
         /\ log[i].attempt = prevLog[j].attempt
         /\ IsRetryable(log[i])
         /\ IsRetryable(prevLog[j]))
        => log[i].slept = prevLog[j].slept

\* --------------------------------------------------------------------------
\* Properties of get_data_meteo_api and of main
\* --------------------------------------------------------------------------
\* C5: get_data_meteo_api called with a city that is no key of COORDINATES
\* returns None and call_api is never invoked (no request is issued), whatever
\* start_date and end_date are.
C5_UnknownCityNoNetworkCall ==
    (entry = "get_data" /\ city \notin DOMAIN COORDINATES) =>
        /\ pc = "done"
        /\ gd_ret = None
        /\ apiCalls = 0
        /\ log = <<>>
        /\ params = None

\* C5 witness: get_data_meteo_api("Paris", ...) has returned
C5_Witness == entry = "get_data" /\ city = "Paris" /\ pc = "done" /\ fetched = <<"Paris">>

HasData(c) == cities_data[c] # None /\ cities_data[c] # Unset

Labels(chart) == [i \in DOMAIN chart.lines |-> chart.lines[i].label]

\* C10: in a run of main, a city without data never stops the run: once the
\* fetch loop is over every registered city has been fetched, in registry
\* order, and when at least one city has data the finished run has saved the
\* three charts, each with one line per city that has data and no other line.
C10_FailedCityOmittedNotFatal ==
    entry = "main" =>
        /\ ~raised
        /\ fetched = SubSeq(CityKeys, 1, Len(fetched))
        /\ pc \in {"plot", "done"} =>
              /\ fetched = CityKeys
              /\ apiCalls = Len(CityKeys)
              /\ \A c \in DOMAIN COORDINATES : cities_data[c] # Unset
        /\ (pc = "done" /\ \E c \in DOMAIN COORDINATES : HasData(c)) =>
              /\ Len(charts) = Len(WEATHER_VARIABLES)
              /\ \A k \in DOMAIN charts :
                    /\ charts[k].filename = WEATHER_VARIABLES[k]
                    /\ Labels(charts[k]) = SelectSeq(CityKeys, HasData)

\* C10 witness: a finished run in which London has no data and the other two
\* cities are on the three charts
C10_Witness ==
    /\ entry = "main" /\ pc = "done"
    /\ cities_data["London"] = None
    /\ HasData("Madrid") /\ HasData("Rio")
    /\ Len(charts) = 3
    /\ Labels(charts[3]) = <<"Madrid", "Rio">>

\* --------------------------------------------------------------------------
\* Properties of the frequency filter
\* --------------------------------------------------------------------------
Filtered == fpc \in {"filtered", "saved"}

\* how many rows of the table carry the user_id u (an empty cell counted too)
Occurrences(rows, u) == Cardinality({i \in DOMAIN rows : rows[i].user_id = u})

RowSet(rows) == {rows[i] : i \in DOMAIN rows}

\* C6 as stated: the output is the input rows whose user_id occurs at least 5
\* times in the input, in input order and unchanged.
C6_KeepsExactlyFrequentRows ==
    Filtered =>
        LET Frequent(r) == Occurrences(df, r.user_id) >= 5
        IN filtered_df = SelectSeq(df, Frequent)

\* C6 amended: the output is the input rows whose user_id is present (not an
\* empty cell) and occurs at least 5 times in the input, in input order and
\* unchanged; a row with a missing user_id is dropped however many there are.
C6_KeepsExactlyFrequentPresentRows ==
    Filtered =>
        LET Frequent(r) == r.user_id # NaN /\ Occurrences(df, r.user_id) >= 5
        IN filtered_df = SelectSeq(df, Frequent)

\* C6 witness: three users with at least 5 rows each are kept, a fourth key
\* with fewer rows is dropped
C6_Witness ==
    /\ fpass = 1 /\ Filtered
    /\ Cardinality(valid_users) = 3
    /\ \E i \in DOMAIN df : df[i].user_id \notin valid_users
    /\ Len(filtered_df) >= 15 /\ Len(filtered_df) < Len(df)

\* C7 as stated: the output is a strict subset of the input rows and holds only
\* rows whose user_id appears at least 5 times in the input.
C7_StrictSubsetOfFrequentRows ==
    Filtered =>
        /\ RowSet(filtered_df) \subseteq RowSet(df)
        /\ RowSet(filtered_df) # RowSet(df)
        /\ \A r \in RowSet(filtered_df) : Occurrences(df, r.user_id) >= 5

\* C7 amended: the output is a subset of the input rows, equal to the input
\* exactly when every input row has a present user_id appearing at least 5
\* times, and holds only rows whose user_id appears at least 5 times in the
\* input.
C7_SubsetOfFrequentRows ==
    Filtered =>
        /\ RowSet(filtered_df) \subseteq RowSet(df)
        /\ Len(filtered_df) <= Len(df)
        /\ \A r \in RowSet(filtered_df) : Occurrences(df, r.user_id) >= 5
        /\ (filtered_df = df) <=>
              (\A i \in DOMAIN df :
                  df[i].user_id # NaN /\ Occurrences(df, df[i].user_id) >= 5)

\* C7 witness: a table of two users with 5 rows or more each, which the filter
\* returns whole
C7_Witness ==
    /\ fpass = 1 /\ Filtered
    /\ Cardinality(valid_users) = 2
    /\ Len(df) >= 10
    /\ filtered_df = df

\* C8: filtering the output of the filter once more removes no row:
\* filter(filter(T)) = filter(T).
C8_FilterIdempotent ==
    (fpass = 2 /\ Filtered) => (filtered_df = firstOut /\ filtered_df = df)

\* C8 witness: the second pass ran on an output from which the first pass had
\* removed rows, and kept its 5 rows or more
C8_Witness ==
    /\ fpass = 2 /\ fpc = "saved"
    /\ Len(firstOut) >= 5
    /\ firstOut[1].line > 1
    /\ filtered_df = firstOut

\* --------------------------------------------------------------------------
\* Properties of process_weather_data
\* --------------------------------------------------------------------------
\* the table holds exactly the days of one 31-day month, nothing missing
CompleteMonth31(rows) ==
    /\ Len(rows) = 31
    /\ \E m \in DOMAIN MonthLengths :
          /\ MonthLengths[m] = 31
          /\ {rows[i].time : i \in DOMAIN rows} = MonthStarts[m]..(MonthStarts[m + 1] - 1)
    /\ \A i \in DOMAIN rows :
          /\ rows[i].temperature_2m_mean # NaN
          /\ rows[i].precipitation_sum # NaN
          /\ rows[i].wind_speed_10m_max # NaN
          /\ rows[i].city # NoCity

\* C9: monthly aggregation of the daily records of one complete 31-day month
\* returns exactly one row: its temperature is the arithmetic mean (sum / 31),
\* its precipitation the sum, its wind speed the maximum of the 31 inputs, its
\* city the city of the input.
C9_MonthlyAggregateOfOneMonth ==
    (rpc = "returned" /\ resample_freq = "M" /\ CompleteMonth31(rdf)) =>
        /\ Len(result) = 1
        /\ result[1].temperature_2m_mean.den > 0
        /\ result[1].temperature_2m_mean.num * 31 =
              SumRange(Column(rdf, "temperature_2m_mean"), 1, 31)
                  * result[1].temperature_2m_mean.den
        /\ result[1].precipitation_sum = SumRange(Column(rdf, "precipitation_sum"), 1, 31)
        /\ \A i \in DOMAIN rdf : rdf[i].wind_speed_10m_max <= result[1].wind_speed_10m_max
        /\ \E i \in DOMAIN rdf : rdf[i].wind_speed_10m_max = result[1].wind_speed_10m_max
        /\ \A i \in DOMAIN rdf : rdf[i].city = result[1].city

\* C9 witness: March, with temperatures, precipitations and wind speeds that
\* vary from day to day, has been aggregated by month
C9_Witness ==
    /\ rpc = "returned" /\ resample_freq = "M" /\ CompleteMonth31(rdf)
    /\ rdf[1].time = 60
    /\ \E i, j \in DOMAIN rdf : rdf[i].temperature_2m_mean # rdf[j].temperature_2m_mean
    /\ \E i, j \in DOMAIN rdf : rdf[i].wind_speed_10m_max # rdf[j].wind_speed_10m_max
    /\ Len(result) = 1
    /\ result[1].precipitation_sum > 0

====
